---------------------------- MODULE Spec2Model ----------------------------
(***************************************************************************)
(* jessepeterson/cfgprofiles: the payloadWrapper discriminated decode and  *)
(* the multiString scalar-or-list field (payloads.go), over a model of the *)
(* plist primitive tree and of the reflective plist decoder they call.     *)
(***************************************************************************)
EXTENDS Integers, Sequences, FiniteSets, TLC

VARIABLES
    payload,   \* payloadWrapper.Payload: the held payload value (nil at first)
    pwOp,      \* last payloadWrapper operation: "init", "unmarshal", "marshal"
    pwIn,      \* the sub-document the last UnmarshalPlist was driven with
    pwErr,     \* the error the last payloadWrapper operation returned
    pwType,    \* plType.PayloadType as read by the first pass
    pwPass,    \* how far the last UnmarshalPlist got: 0 none, 1 first pass, 2 both
    pwOut,     \* the value the last payloadWrapper.MarshalPlist returned
    pwPrev,    \* the payload the wrapper held when the last operation began
    m,         \* a multiString field
    msOp,      \* last multiString operation
    msIn,      \* the wire value the last multiString.UnmarshalPlist was driven with
    msErr,     \* the error the last multiString operation returned
    msOut,     \* the value the last multiString.MarshalPlist returned
    msWire,    \* the primitive the codec writes for msOut
    msPrev,    \* the field's value when the last operation began
    profile,   \* a Profile (the document): &Profile{} at first
    prFrom,    \* where it came from: "zero", "new", "decoded", "edited", "failed"
    prOp,      \* last Profile operation
    prIn,      \* the document tree the profile was decoded from
    prErr,     \* the error the last decode or encode of the profile returned
    prOut,     \* the tree the last encode of the profile wrote
    prBack,    \* a second Profile, decoded from prOut
    prArg,     \* the payload the last AddPayload was given
    prPrev,    \* the profile when the last AddPayload began
    prQ        \* what the five queries last returned

vars == <<payload, pwOp, pwIn, pwErr, pwType, pwPass, pwOut, pwPrev,
          m, msOp, msIn, msErr, msOut, msWire, msPrev,
          profile, prFrom, prOp, prIn, prErr, prOut, prBack, prArg, prPrev, prQ>>

pwVars == <<payload, pwOp, pwIn, pwErr, pwType, pwPass, pwOut, pwPrev>>
msVars == <<m, msOp, msIn, msErr, msOut, msWire, msPrev>>
prVars == <<profile, prFrom, prOp, prIn, prErr, prOut, prBack, prArg, prPrev, prQ>>

\* Most payload entries a document gets
MaxPayloads == 2

\* Longest string array / multiString the model enumerates.
MaxLen == 2

\* The strings multiString values and wire arrays are drawn from.
Strs == {"a", "b"}

---------------------------------------------------------------------------
\* Record constructors below list their fields in the order the field names
\* first occur in this module, which is the order TLC keeps records in.
\* errors: nil, plist.UnmarshalTypeError{Value, Type}, or an error built by
\* fmt.Errorf / by the codec's default case ("errorString", "wrapError")
Err(kind, value, type) == [kind |-> kind, Value |-> value, Type |-> type]
NoErr == Err("nil", "", "")
UnmarshalTypeError(value, type) == Err("UnmarshalTypeError", value, type)

\* lookup in a sequence of <<key, value>> pairs with distinct keys
Has(ps, k) == \E i \in 1..Len(ps) : ps[i][1] = k
Get(ps, k) == ps[CHOOSE i \in 1..Len(ps) : ps[i][1] = k][2]

(* Go values: one record shape.  t is the Go type; a holds a slice's       *)
(* elements, or a pointer's target (empty: nil); f holds a struct's fields *)
(* as <<plist key, value>> pairs in declaration order, embedded structs    *)
(* flattened as the codec's field cache flattens them.                     *)
GV(t, s, n, b, a, f) == [t |-> t, s |-> s, n |-> n, b |-> b, a |-> a, f |-> f]

GoNil == GV("nil", "", 0, FALSE, <<>>, <<>>)
GoString(s) == GV("string", s, 0, FALSE, <<>>, <<>>)
GoStrings(q) == GV("[]string", "", 0, FALSE, [i \in 1..Len(q) |-> GoString(q[i])], <<>>)
Field(v, k) == Get(v.f, k)
\* the []string / multiString held by a Go value, as a sequence of strings
Strings(v) == [i \in 1..Len(v.a) |-> v.a[i].s]
\* payloadWrapper{Payload: p}, and the value a wrapper holds (GoNil: none)
Wrap(p) == GV("payloadWrapper", "", 0, FALSE, IF p = GoNil THEN <<>> ELSE <<p>>, <<>>)
Held(v) == IF v.a = <<>> THEN GoNil ELSE v.a[1]

(* The plist primitive tree: every primitive is a record of one shape,     *)
(* kind in string, integer, boolean, data, array, dict, invalid.  A dict   *)
(* is a sequence of <<key, primitive>> pairs with distinct keys.           *)

W(kind, s, n, b, a, d) ==
    [kind |-> kind, s |-> s, n |-> n, b |-> b, a |-> a, d |-> d]

WStr(s) == W("string", s, 0, FALSE, <<>>, <<>>)
WInt(n) == W("integer", "", n, FALSE, <<>>, <<>>)
WBool(b) == W("boolean", "", 0, b, <<>>, <<>>)
WData(s) == W("data", s, 0, FALSE, <<>>, <<>>)
WArr(a) == W("array", "", 0, FALSE, a, <<>>)
WDict(d) == W("dict", "", 0, FALSE, <<>>, d)
\* a primitive of a kind the decoder has no case for
WInvalid == W("invalid", "", 0, FALSE, <<>>, <<>>)
WNone == W("none", "", 0, FALSE, <<>>, <<>>)

---------------------------------------------------------------------------
(* The payload shape catalog: the struct declarations of payloads.go.      *)

PayloadFields ==
    << <<"PayloadDescription", "string">>, <<"PayloadDisplayName", "string">>,
       <<"PayloadIdentifier", "string">>, <<"PayloadOrganization", "string">>,
       <<"PayloadUUID", "string">>, <<"PayloadType", "string">>,
       <<"PayloadVersion", "int">> >>

CertificatePKCS1PayloadFields ==
    PayloadFields \o
    << <<"PayloadCertificateFileName", "string">>, <<"PayloadContent", "[]byte">> >>

SCEPPayloadContentFields ==
    << <<"URL", "string">>, <<"Name", "string">>, <<"Subject", "[][][]string">>,
       <<"Challenge", "string">>, <<"Keysize", "int">>, <<"Key Type", "string">>,
       <<"Key Usage", "int">>, <<"Retries", "int">>, <<"RetryDelay", "int">>,
       <<"CAFingerprint", "[]byte">>, <<"AllowAllAppsAccess", "bool">>,
       <<"KeyIsExtractable", "*bool">>, <<"SubjectAltName", "*SubjectAltName">> >>

SCEPPayloadFields ==
    PayloadFields \o << <<"PayloadContent", "SCEPPayloadContent">> >>

SubjectAltNameFields ==
    << <<"dNSName", "multiString">>, <<"ntPrincipalName", "multiString">>,
       <<"rfc822Name", "multiString">>,
       <<"uniformResourceIdentifier", "multiString">> >>

ACMECertificatePayloadFields ==
    PayloadFields \o
    << <<"AllowAllAppsAccess", "bool">>, <<"Attest", "bool">>,
       <<"ClientIdentifier", "string">>, <<"DirectoryURL", "string">>,
       <<"ExtendedKeyUsage", "[]string">>, <<"HardwareBound", "bool">>,
       <<"KeySize", "int">>, <<"KeyIsExtractable", "*bool">>,
       <<"KeyType", "string">>, <<"Subject", "[][][]string">>,
       <<"UsageFlags", "int">>, <<"SubjectAltName", "*SubjectAltName">> >>

MDMPayloadFields ==
    PayloadFields \o
    << <<"IdentityCertificateUUID", "string">>, <<"Topic", "string">>,
       <<"ServerURL", "string">>, <<"ServerCapabilities", "[]string">>,
       <<"SignMessage", "bool">>, <<"CheckInURL", "string">>,
       <<"CheckOutWhenRemoved", "bool">>, <<"AccessRights", "int">>,
       <<"UseDevelopmentAPNS", "bool">>,
       <<"ServerURLPinningCertificateUUIDs", "[]string">>,
       <<"CheckInURLPinningCertificateUUIDs", "[]string">>,
       <<"PinningRevocationCheckRequired", "bool">> >>

\* the anonymous struct { PayloadType string } of the first pass
plTypeFields == << <<"PayloadType", "string">> >>

\* Profile: the embedded Payload, the payload entries, the optional keys
ProfileFields ==
    PayloadFields \o
    << <<"PayloadContent", "[]payloadWrapper">>,
       <<"PayloadExpirationDate", "*time.Time">>,
       <<"PayloadRemovalDisallowed", "bool">>, <<"PayloadScope", "string">>,
       <<"PayloadDate", "*time.Time">>, <<"DurationUntilRemoval", "float32">>,
       <<"ConsentText", "map[string]string">>,
       <<"EncryptedPayloadContent", "[]byte">>, <<"HasRemovalPasscode", "bool">>,
       <<"IsEncrypted", "bool">>, <<"RemovalDate", "*time.Time">>,
       <<"TargetDeviceType", "int">> >>

\* the keys of a struct type tagged plist:",omitempty"
OmitEmpty(T) ==
    LET common == {"PayloadDescription", "PayloadDisplayName", "PayloadOrganization"}
    IN
    CASE T = "Payload" -> common
      [] T = "CertificatePKCS1Payload" -> common \cup {"PayloadCertificateFileName"}
      [] T = "SCEPPayload" -> common
      [] T = "SCEPPayloadContent" ->
           {SCEPPayloadContentFields[i][1] : i \in 1..Len(SCEPPayloadContentFields)}
           \ {"URL"}
      [] T = "SubjectAltName" ->
           {SubjectAltNameFields[i][1] : i \in 1..Len(SubjectAltNameFields)}
      [] T = "ACMECertificatePayload" ->
           {ACMECertificatePayloadFields[i][1] : i \in 1..Len(ACMECertificatePayloadFields)}
           \ {"PayloadIdentifier", "PayloadUUID", "PayloadType", "PayloadVersion"}
      [] T = "MDMPayload" ->
           common \cup {"ServerCapabilities", "SignMessage", "CheckInURL",
                        "CheckOutWhenRemoved", "UseDevelopmentAPNS",
                        "ServerURLPinningCertificateUUIDs",
                        "CheckInURLPinningCertificateUUIDs",
                        "PinningRevocationCheckRequired"}
      [] T = "Profile" ->
           {ProfileFields[i][1] : i \in 1..Len(ProfileFields)}
           \ {"PayloadIdentifier", "PayloadUUID", "PayloadType", "PayloadVersion",
              "PayloadContent"}
      [] OTHER -> {}

StructTypes ==
    {"plType", "Payload", "CertificatePKCS1Payload", "SCEPPayload",
     "SCEPPayloadContent", "SubjectAltName", "ACMECertificatePayload", "MDMPayload",
     "Profile"}

TypeFields(T) ==
    CASE T = "plType" -> plTypeFields
      [] T = "Payload" -> PayloadFields
      [] T = "CertificatePKCS1Payload" -> CertificatePKCS1PayloadFields
      [] T = "SCEPPayload" -> SCEPPayloadFields
      [] T = "SCEPPayloadContent" -> SCEPPayloadContentFields
      [] T = "SubjectAltName" -> SubjectAltNameFields
      [] T = "ACMECertificatePayload" -> ACMECertificatePayloadFields
      [] T = "MDMPayload" -> MDMPayloadFields
      [] T = "Profile" -> ProfileFields
      [] OTHER -> <<>>

\* reflect.Kind of a type of the catalog
KindOf(T) ==
    CASE T \in StructTypes -> "struct"
      [] T \in {"[]byte", "[]string", "[][]string", "[][][]string", "multiString",
                "[]payloadWrapper"} -> "slice"
      [] T \in {"*bool", "*SubjectAltName"} -> "ptr"
      [] OTHER -> T

\* reflect.Type.Elem of a slice or pointer type
Elem(T) ==
    CASE T = "[]byte" -> "uint8"
      [] T = "[]string" -> "string"
      [] T = "multiString" -> "string"
      [] T = "[][]string" -> "[]string"
      [] T = "[][][]string" -> "[][]string"
      [] T = "*bool" -> "bool"
      [] T = "*SubjectAltName" -> "SubjectAltName"
      [] T = "[]payloadWrapper" -> "payloadWrapper"
      [] OTHER -> "none"

\* reflect.Type.String
TypeName(T) ==
    IF T \in StructTypes \/ T = "multiString" THEN "cfgprofiles." \o T ELSE T

RECURSIVE Zero(_)
\* the zero value of a type: what &T{} and var x T hold
Zero(T) ==
    IF KindOf(T) = "struct"
    THEN GV(T, "", 0, FALSE, <<>>,
            [i \in 1..Len(TypeFields(T)) |->
                <<TypeFields(T)[i][1], Zero(TypeFields(T)[i][2])>>])
    ELSE GV(T, "", 0, FALSE, <<>>, <<>>)

---------------------------------------------------------------------------
(* The plist decoder the callbacks f of UnmarshalPlist drive: Unmarshal(w, *)
(* v) materialises the primitive w into the target value v (of type v.t)   *)
(* and gives [err, val].  It never advances a cursor: each call starts     *)
(* from w.                                                                 *)

RECURSIVE Unmarshal(_, _), UnmarshalElems(_, _, _), UnmarshalFields(_, _, _)
RECURSIVE multiString_UnmarshalPlist(_, _), payloadWrapper_UnmarshalPlist(_, _)

\* the slice elements ws[i..] into fresh values of type T, stopping at the
\* first error
UnmarshalElems(ws, T, i) ==
    IF i > Len(ws) THEN [err |-> NoErr, a |-> <<>>]
    ELSE LET r == Unmarshal(ws[i], Zero(T)) IN
         IF r.err # NoErr THEN [err |-> r.err, a |-> <<>>]
         ELSE LET rest == UnmarshalElems(ws, T, i + 1) IN
              [err |-> rest.err, a |-> <<r.val>> \o rest.a]

\* the struct fields fs[i..] from the dict d: a key the dict lacks is skipped
\* and leaves the field as it is; the first failing field ends the decode
UnmarshalFields(d, fs, i) ==
    IF i > Len(fs) THEN [err |-> NoErr, f |-> <<>>]
    ELSE LET k == fs[i][1]
             r == IF Has(d, k) THEN Unmarshal(Get(d, k), fs[i][2])
                  ELSE [err |-> NoErr, val |-> fs[i][2]]
         IN  IF r.err # NoErr THEN [err |-> r.err, f |-> <<>>]
             ELSE LET rest == UnmarshalFields(d, fs, i + 1) IN
                  [err |-> rest.err, f |-> << <<k, r.val>> >> \o rest.f]

\* the text the decoder puts in UnmarshalTypeError.Value for a primitive
ValueText(w) ==
    CASE w.kind = "string" -> w.s
      [] w.kind = "integer" -> ToString(w.n)
      [] w.kind = "boolean" -> IF w.b THEN "true" ELSE "false"
      [] w.kind = "data" -> w.s
      [] OTHER -> w.kind

\* a primitive into a non-pointer target whose type implements no Unmarshaler
UnmarshalKind(w, v) ==
    LET T == v.t
        mismatch == [err |-> UnmarshalTypeError(ValueText(w), TypeName(T)),
                     val |-> v]
    IN
    CASE w.kind = "string" ->
           IF KindOf(T) = "string"
           THEN [err |-> NoErr, val |-> GV(T, w.s, 0, FALSE, <<>>, <<>>)]
           ELSE mismatch
      [] w.kind = "integer" ->
           IF KindOf(T) \in {"int", "uint8"}
           THEN [err |-> NoErr, val |-> GV(T, "", w.n, FALSE, <<>>, <<>>)]
           ELSE mismatch
      [] w.kind = "boolean" ->
           IF KindOf(T) = "bool"
           THEN [err |-> NoErr, val |-> GV(T, "", 0, w.b, <<>>, <<>>)]
           ELSE mismatch
      [] w.kind = "data" ->
           IF T = "[]byte"
           THEN [err |-> NoErr, val |-> GV(T, w.s, 0, FALSE, <<>>, <<>>)]
           ELSE mismatch
      [] w.kind = "array" ->
           IF KindOf(T) = "slice"
           THEN LET r == UnmarshalElems(w.a, Elem(T), 1) IN
                IF r.err # NoErr THEN [err |-> r.err, val |-> v]
                ELSE [err |-> NoErr, val |-> GV(T, "", 0, FALSE, r.a, <<>>)]
           ELSE mismatch
      [] w.kind = "dict" ->
           IF KindOf(T) = "struct"
           THEN LET r == UnmarshalFields(w.d, v.f, 1) IN
                IF r.err # NoErr THEN [err |-> r.err, val |-> v]
                ELSE [err |-> NoErr, val |-> GV(T, "", 0, FALSE, <<>>, r.f)]
           ELSE mismatch
      [] OTHER ->
           [err |-> Err("errorString", w.kind, ""), val |-> v]

Unmarshal(w, v) ==
    IF v.t = "multiString"
    THEN LET r == multiString_UnmarshalPlist(w, Strings(v)) IN
         [err |-> r.err, val |-> GV(v.t, "", 0, FALSE, GoStrings(r.m).a, <<>>)]
    ELSE IF v.t = "payloadWrapper"
    THEN LET r == payloadWrapper_UnmarshalPlist(w, Held(v)) IN
         [err |-> r.err, val |-> Wrap(r.Payload)]
    ELSE IF KindOf(v.t) = "ptr"
    THEN LET r == Unmarshal(w, IF v.a = <<>> THEN Zero(Elem(v.t)) ELSE v.a[1]) IN
         [err |-> r.err, val |-> GV(v.t, "", 0, FALSE, <<r.val>>, <<>>)]
    ELSE UnmarshalKind(w, v)

RECURSIVE Marshal(_)
\* the primitive the encoder writes for a string or a slice a MarshalPlist
\* method returned
Marshal(v) ==
    CASE KindOf(v.t) = "string" -> WStr(v.s)
      [] KindOf(v.t) = "slice" -> WArr([i \in 1..Len(v.a) |-> Marshal(v.a[i])])
      [] OTHER -> WNone

---------------------------------------------------------------------------
(* multiString (payloads.go 211-251)                                       *)

\* UnmarshalPlist with a plausible slip: the scalar is appended to the field
\* instead of replacing it
multiString_UnmarshalPlist_Appends(w, cur) ==
    LET trySingle == Unmarshal(w, Zero("string"))
        tryMulti == Unmarshal(w, Zero("[]string"))
    IN  IF trySingle.err = NoErr
        THEN [err |-> NoErr, m |-> cur \o <<trySingle.val.s>>]
        ELSE IF tryMulti.err = NoErr
        THEN [err |-> NoErr, m |-> cur \o Strings(tryMulti.val)]
        ELSE IF tryMulti.err.kind = "UnmarshalTypeError"
        THEN [err |-> [tryMulti.err EXCEPT !.Type = TypeName("multiString")],
              m |-> cur]
        ELSE [err |-> Err("wrapError", tryMulti.err.kind, TypeName("multiString")),
              m |-> cur]

\* UnmarshalPlist with a plausible slip: the last probe's error is returned
\* as the codec made it
multiString_UnmarshalPlist_RawError(w, cur) ==
    LET trySingle == Unmarshal(w, Zero("string"))
        tryMulti == Unmarshal(w, Zero("[]string"))
    IN  IF trySingle.err = NoErr
        THEN [err |-> NoErr, m |-> <<trySingle.val.s>>]
        ELSE IF tryMulti.err = NoErr
        THEN [err |-> NoErr, m |-> Strings(tryMulti.val)]
        ELSE [err |-> tryMulti.err, m |-> cur]

\* UnmarshalPlist with a plausible slip: the field is reset before the probes
\* and stays empty when both fail
multiString_UnmarshalPlist_ClearsOnError(w, cur) ==
    LET trySingle == Unmarshal(w, Zero("string"))
        tryMulti == Unmarshal(w, Zero("[]string"))
    IN  IF trySingle.err = NoErr
        THEN [err |-> NoErr, m |-> <<trySingle.val.s>>]
        ELSE IF tryMulti.err = NoErr
        THEN [err |-> NoErr, m |-> Strings(tryMulti.val)]
        ELSE IF tryMulti.err.kind = "UnmarshalTypeError"
        THEN [err |-> [tryMulti.err EXCEPT !.Type = TypeName("multiString")],
              m |-> <<>>]
        ELSE [err |-> Err("wrapError", tryMulti.err.kind, TypeName("multiString")),
              m |-> <<>>]

\* UnmarshalPlist with a plausible slip: an array without elements is refused
\* like a primitive of the wrong kind
multiString_UnmarshalPlist_RejectsEmpty(w, cur) ==
    LET trySingle == Unmarshal(w, Zero("string"))
        tryMulti == Unmarshal(w, Zero("[]string"))
    IN  IF trySingle.err = NoErr
        THEN [err |-> NoErr, m |-> <<trySingle.val.s>>]
        ELSE IF tryMulti.err = NoErr /\ Len(tryMulti.val.a) >= 1
        THEN [err |-> NoErr, m |-> Strings(tryMulti.val)]
        ELSE [err |-> UnmarshalTypeError(ValueText(w), TypeName("multiString")),
              m |-> cur]

\* UnmarshalPlist on the field holding cur, its callback f bound to the
\* primitive w: [err, m], m the field afterwards
multiString_UnmarshalPlist(w, cur) ==
    LET trySingle == Unmarshal(w, Zero("string"))
        tryMulti == Unmarshal(w, Zero("[]string"))
    IN  IF trySingle.err = NoErr
        THEN [err |-> NoErr, m |-> <<trySingle.val.s>>]
        ELSE IF tryMulti.err = NoErr
        THEN [err |-> NoErr, m |-> Strings(tryMulti.val)]
        ELSE IF tryMulti.err.kind = "UnmarshalTypeError"
        THEN [err |-> [tryMulti.err EXCEPT !.Type = TypeName("multiString")],
              m |-> cur]
        ELSE [err |-> Err("wrapError", tryMulti.err.kind, TypeName("multiString")),
              m |-> cur]

\* MarshalPlist with a plausible slip: no scalar case
multiString_MarshalPlist_AlwaysArray(n) ==
    CASE Len(n) = 0 ->
           [err |-> Err("errorString", "cannot marshal empty", TypeName("multiString")),
            val |-> GoNil]
      [] OTHER -> [err |-> NoErr, val |-> GoStrings(n)]

\* MarshalPlist with a plausible slip: the scalar case taken for every
\* non-empty field
multiString_MarshalPlist_FirstOnly(n) ==
    CASE Len(n) = 0 ->
           [err |-> Err("errorString", "cannot marshal empty", TypeName("multiString")),
            val |-> GoNil]
      [] OTHER -> [err |-> NoErr, val |-> GoString(n[1])]

\* MarshalPlist with a plausible slip: no empty case
multiString_MarshalPlist_EmptyOk(n) ==
    CASE Len(n) = 1 -> [err |-> NoErr, val |-> GoString(n[1])]
      [] OTHER -> [err |-> NoErr, val |-> GoStrings(n)]

\* MarshalPlist with a plausible slip: the empty case reports a codec type
\* error instead of fmt.Errorf's
multiString_MarshalPlist_TypedError(n) ==
    CASE Len(n) = 0 ->
           [err |-> UnmarshalTypeError("cannot marshal empty", TypeName("multiString")),
            val |-> GoNil]
      [] Len(n) = 1 -> [err |-> NoErr, val |-> GoString(n[1])]
      [] OTHER -> [err |-> NoErr, val |-> GoStrings(n)]

\* MarshalPlist: [err, val], val the value handed to the encoder
multiString_MarshalPlist(n) ==
    CASE Len(n) = 0 ->
           [err |-> Err("errorString", "cannot marshal empty", TypeName("multiString")),
            val |-> GoNil]
      [] Len(n) = 1 -> [err |-> NoErr, val |-> GoString(n[1])]
      [] OTHER -> [err |-> NoErr, val |-> GoStrings(n)]

---------------------------------------------------------------------------
(* payloadWrapper (payloads.go 13-57)                                      *)

\* newPayloadForType with a plausible slip: the table without its ACME case
newPayloadForType_NoACME(t) ==
    CASE t = "com.apple.security.pkcs1" -> Zero("CertificatePKCS1Payload")
      [] t = "com.apple.mdm" -> Zero("MDMPayload")
      [] t = "com.apple.security.scep" -> Zero("SCEPPayload")
      [] OTHER -> Zero("Payload")

\* newPayloadForType with a plausible slip: the table without its SCEP case
newPayloadForType_NoSCEP(t) ==
    CASE t = "com.apple.security.pkcs1" -> Zero("CertificatePKCS1Payload")
      [] t = "com.apple.mdm" -> Zero("MDMPayload")
      [] t = "com.apple.security.acme" -> Zero("ACMECertificatePayload")
      [] OTHER -> Zero("Payload")

\* the empty payload struct for PayloadType t
newPayloadForType(t) ==
    CASE t = "com.apple.security.pkcs1" -> Zero("CertificatePKCS1Payload")
      [] t = "com.apple.mdm" -> Zero("MDMPayload")
      [] t = "com.apple.security.scep" -> Zero("SCEPPayload")
      [] t = "com.apple.security.acme" -> Zero("ACMECertificatePayload")
      [] OTHER -> Zero("Payload")

\* the sub-document with its PayloadType entry taken out
WithoutType(w) ==
    [w EXCEPT !.d = SelectSeq(w.d, LAMBDA e : e[1] # "PayloadType")]

\* UnmarshalPlist with a plausible slip: a type outside the registry is an error
payloadWrapper_UnmarshalPlist_StrictRegistry(w, p) ==
    LET first == Unmarshal(w, Zero("plType"))
        t == Field(first.val, "PayloadType").s
        plStruct == newPayloadForType(t)
        second == Unmarshal(w, plStruct)
    IN  IF first.err # NoErr
        THEN [err |-> first.err, Payload |-> p, plType |-> "", pass |-> 1]
        ELSE IF plStruct.t = "Payload"
        THEN [err |-> Err("errorString", "unknown payload type", t),
              Payload |-> p, plType |-> t, pass |-> 1]
        ELSE IF second.err # NoErr
        THEN [err |-> second.err, Payload |-> p, plType |-> t, pass |-> 2]
        ELSE [err |-> NoErr, Payload |-> second.val, plType |-> t, pass |-> 2]

\* UnmarshalPlist with a plausible slip: the second pass resumes after the
\* discriminator the first pass consumed
payloadWrapper_UnmarshalPlist_Consumed(w, p) ==
    LET first == Unmarshal(w, Zero("plType"))
        t == Field(first.val, "PayloadType").s
        plStruct == newPayloadForType(t)
        second == Unmarshal(IF w.kind = "dict" THEN WithoutType(w) ELSE w, plStruct)
    IN  IF first.err # NoErr
        THEN [err |-> first.err, Payload |-> p, plType |-> "", pass |-> 1]
        ELSE IF second.err # NoErr
        THEN [err |-> second.err, Payload |-> p, plType |-> t, pass |-> 2]
        ELSE [err |-> NoErr, Payload |-> second.val, plType |-> t, pass |-> 2]

\* UnmarshalPlist with a plausible slip: a body that does not fit its variant
\* is decoded as the Unknown Variant instead
payloadWrapper_UnmarshalPlist_Fallback(w, p) ==
    LET first == Unmarshal(w, Zero("plType"))
        t == Field(first.val, "PayloadType").s
        plStruct == newPayloadForType(t)
        second == Unmarshal(w, plStruct)
        third == Unmarshal(w, Zero("Payload"))
    IN  IF first.err # NoErr
        THEN [err |-> first.err, Payload |-> p, plType |-> "", pass |-> 1]
        ELSE IF second.err = NoErr
        THEN [err |-> NoErr, Payload |-> second.val, plType |-> t, pass |-> 2]
        ELSE IF third.err # NoErr
        THEN [err |-> third.err, Payload |-> p, plType |-> t, pass |-> 2]
        ELSE [err |-> NoErr, Payload |-> third.val, plType |-> t, pass |-> 2]

\* UnmarshalPlist with a plausible slip: the empty target is stored before
\* the first pass's error is returned
payloadWrapper_UnmarshalPlist_StoresOnError(w, p) ==
    LET first == Unmarshal(w, Zero("plType"))
        t == Field(first.val, "PayloadType").s
        plStruct == newPayloadForType(t)
        second == Unmarshal(w, plStruct)
    IN  IF first.err # NoErr
        THEN [err |-> first.err, Payload |-> newPayloadForType(""), plType |-> "",
              pass |-> 1]
        ELSE IF second.err # NoErr
        THEN [err |-> second.err, Payload |-> p, plType |-> t, pass |-> 2]
        ELSE [err |-> NoErr, Payload |-> second.val, plType |-> t, pass |-> 2]

\* UnmarshalPlist on the wrapper holding p, its callback f bound to the
\* sub-document w: [err, Payload, plType, pass]
payloadWrapper_UnmarshalPlist(w, p) ==
    LET first == Unmarshal(w, Zero("plType"))
        t == Field(first.val, "PayloadType").s
        plStruct == newPayloadForType(t)
        second == Unmarshal(w, plStruct)
    IN  IF first.err # NoErr
        THEN [err |-> first.err, Payload |-> p, plType |-> "", pass |-> 1]
        ELSE IF second.err # NoErr
        THEN [err |-> second.err, Payload |-> p, plType |-> t, pass |-> 2]
        ELSE [err |-> NoErr, Payload |-> second.val, plType |-> t, pass |-> 2]

\* MarshalPlist: the wrapped payload struct
\* MarshalPlist with a plausible slip: only the embedded Payload is returned
payloadWrapper_MarshalPlist_CommonOnly(p) ==
    [err |-> NoErr,
     val |-> IF p.f = <<>> THEN p
             ELSE GV("Payload", "", 0, FALSE, <<>>, SubSeq(p.f, 1, Len(PayloadFields)))]

\* MarshalPlist: [err, val], val the held payload, handed to the encoder
payloadWrapper_MarshalPlist(p) == [err |-> NoErr, val |-> p]

---------------------------------------------------------------------------
(* The plist encoder that calls MarshalPlist: Encode(v) is [err, val], val *)
(* the primitive written for the Go value v.                               *)

\* the emptiness test behind omitempty; a *time.Time, float32 or map field is
\* never set here, and so is always empty
IsEmptyValue(v) ==
    CASE KindOf(v.t) = "string" -> v.s = ""
      [] KindOf(v.t) \in {"int", "uint8"} -> v.n = 0
      [] KindOf(v.t) = "bool" -> ~v.b
      [] v.t = "[]byte" -> v.s = ""
      [] KindOf(v.t) = "slice" /\ v.t # "[]byte" -> v.a = <<>>
      [] KindOf(v.t) = "ptr" -> v.a = <<>>
      [] KindOf(v.t) = "struct" -> FALSE
      [] OTHER -> TRUE

RECURSIVE Encode(_), EncodeElems(_, _), EncodeFields(_, _, _)

\* the slice elements vs[i..], stopping at the first error
EncodeElems(vs, i) ==
    IF i > Len(vs) THEN [err |-> NoErr, a |-> <<>>]
    ELSE LET r == Encode(vs[i]) IN
         IF r.err # NoErr THEN [err |-> r.err, a |-> <<>>]
         ELSE LET rest == EncodeElems(vs, i + 1) IN
              [err |-> rest.err, a |-> <<r.val>> \o rest.a]

\* the fields fs[i..] of a struct of type T in declared order: an empty
\* omitempty field is left out before it is looked at any further
EncodeFields(T, fs, i) ==
    IF i > Len(fs) THEN [err |-> NoErr, f |-> <<>>]
    ELSE IF fs[i][1] \in OmitEmpty(T) /\ IsEmptyValue(fs[i][2])
    THEN EncodeFields(T, fs, i + 1)
    ELSE LET r == Encode(fs[i][2]) IN
         IF r.err # NoErr THEN [err |-> r.err, f |-> <<>>]
         ELSE LET rest == EncodeFields(T, fs, i + 1) IN
              [err |-> rest.err, f |-> << <<fs[i][1], r.val>> >> \o rest.f]

Encode(v) ==
    CASE v.t = "payloadWrapper" ->
           LET r == payloadWrapper_MarshalPlist(Held(v)) IN
           IF r.err # NoErr THEN [err |-> r.err, val |-> WNone] ELSE Encode(r.val)
      [] v.t = "multiString" ->
           LET r == multiString_MarshalPlist(Strings(v)) IN
           IF r.err # NoErr THEN [err |-> r.err, val |-> WNone]
           ELSE [err |-> NoErr, val |-> Marshal(r.val)]
      [] v.t = "[]byte" -> [err |-> NoErr, val |-> WData(v.s)]
      [] KindOf(v.t) = "string" -> [err |-> NoErr, val |-> Marshal(v)]
      [] KindOf(v.t) \in {"int", "uint8"} -> [err |-> NoErr, val |-> WInt(v.n)]
      [] KindOf(v.t) = "bool" -> [err |-> NoErr, val |-> WBool(v.b)]
      [] KindOf(v.t) = "ptr" /\ v.a # <<>> -> Encode(v.a[1])
      [] KindOf(v.t) = "slice" /\ v.t \notin {"[]byte", "multiString"} ->
           LET r == EncodeElems(v.a, 1) IN
           [err |-> r.err, val |-> IF r.err = NoErr THEN WArr(r.a) ELSE WNone]
      [] KindOf(v.t) = "struct" ->
           LET r == EncodeFields(v.t, v.f, 1) IN
           [err |-> r.err, val |-> IF r.err = NoErr THEN WDict(r.f) ELSE WNone]
      [] OTHER -> [err |-> Err("errorString", "unsupported", v.t), val |-> WNone]

---------------------------------------------------------------------------
(* Payload constructors, Profile and its queries (payloads.go, profile.go) *)

GoInt(n) == GV("int", "", n, FALSE, <<>>, <<>>)
GoData(s) == GV("[]byte", s, 0, FALSE, <<>>, <<>>)

\* the struct v with its field k set to x
Set(v, k, x) ==
    [v EXCEPT !.f = [j \in 1..Len(v.f) |-> IF v.f[j][1] = k THEN <<k, x>> ELSE v.f[j]]]

\* &T{Payload: pl}: the struct T with its embedded Payload set to pl
Embed(T, pl) ==
    [Zero(T) EXCEPT !.f = pl.f \o SubSeq(@, Len(pl.f) + 1, Len(@))]

\* the random UUIDs uuid.New().String() gives, and strings.ToUpper on them
UUIDs == {"8bf53919", "2689be77"}
ToUpper(s) ==
    CASE s = "8bf53919" -> "8BF53919"
      [] s = "2689be77" -> "2689BE77"
      [] OTHER -> s

\* the constructors, u the UUID drawn
NewPayload(t, i, u) ==
    Set(Set(Set(Set(Zero("Payload"), "PayloadIdentifier", GoString(i)),
                "PayloadUUID", GoString(ToUpper(u))),
            "PayloadType", GoString(t)),
        "PayloadVersion", GoInt(1))

NewCertificatePKCS1Payload(i, u) ==
    Embed("CertificatePKCS1Payload", NewPayload("com.apple.security.pkcs1", i, u))

NewSCEPPayload(i, u) ==
    Embed("SCEPPayload", NewPayload("com.apple.security.scep", i, u))

NewACMECertificatePayload(i, u) ==
    Embed("ACMECertificatePayload", NewPayload("com.apple.security.acme", i, u))

NewMDMPayload(i, u) ==
    Embed("MDMPayload", NewPayload("com.apple.mdm", i, u))

NewProfile(i, u) == Embed("Profile", NewPayload("Configuration", i, u))

\* p.PayloadContent, a sequence of wrappers
Entries(p) == Field(p, "PayloadContent").a

\* AddPayload: the profile p with a wrapper of pld appended
AddPayload(p, pld) ==
    Set(p, "PayloadContent",
        [Field(p, "PayloadContent") EXCEPT !.a = Append(@, Wrap(pld))])

\* the common Payload of a payload value, GoNil when it is no payload
CommonPayload(i) ==
    IF i.t \in {"CertificatePKCS1Payload", "SCEPPayload", "ACMECertificatePayload",
                "MDMPayload"}
    THEN GV("Payload", "", 0, FALSE, <<>>, SubSeq(i.f, 1, Len(PayloadFields)))
    ELSE IF i.t = "Payload" THEN i
    ELSE GoNil

RECURSIVE PayloadsOf(_, _, _)
\* the loop of a query over the wrappers pc[i..]: the payloads whose type
\* assertion to *T holds, in order; a returned pointer is named by the
\* position of the wrapper that holds it
PayloadsOf(pc, T, i) ==
    IF i > Len(pc) THEN <<>>
    ELSE (IF Held(pc[i]).t = T THEN <<i>> ELSE <<>>) \o PayloadsOf(pc, T, i + 1)

\* UnknownPayloads with a plausible slip: every entry with a common Payload
UnknownPayloads_AnyPayload(p) ==
    SelectSeq([i \in 1..Len(Entries(p)) |-> i],
              LAMBDA i : CommonPayload(Held(Entries(p)[i])) # GoNil)

UnknownPayloads(p) == PayloadsOf(Entries(p), "Payload", 1)
CertificatePKCS1Payloads(p) == PayloadsOf(Entries(p), "CertificatePKCS1Payload", 1)
SCEPPayloads(p) == PayloadsOf(Entries(p), "SCEPPayload", 1)
ACMECertificatePayloads(p) == PayloadsOf(Entries(p), "ACMECertificatePayload", 1)
MDMPayloads(p) == PayloadsOf(Entries(p), "MDMPayload", 1)

RECURSIVE DecodedPrefix(_, _)
\* the wrappers the sub-documents ws[i..] decode to, up to the first that fails
DecodedPrefix(ws, i) ==
    IF i > Len(ws) THEN <<>>
    ELSE LET r == Unmarshal(ws[i], Zero("payloadWrapper")) IN
         IF r.err # NoErr THEN <<>> ELSE <<r.val>> \o DecodedPrefix(ws, i + 1)

\* what a failed decode of doc may leave in the profile p: p as it was, p
\* with the keys before PayloadContent decoded, and that with the entries
\* decoded before the failure, alone or followed by empty wrappers for the
\* rest of the array
Residues(doc, p) ==
    IF doc.kind # "dict" THEN {p}
    ELSE LET keys == {PayloadFields[i][1] : i \in 1..Len(PayloadFields)}
             head == Unmarshal(WDict(SelectSeq(doc.d, LAMBDA e : e[1] \in keys)), p)
             ws == IF Has(doc.d, "PayloadContent")
                      /\ Get(doc.d, "PayloadContent").kind = "array"
                   THEN Get(doc.d, "PayloadContent").a ELSE <<>>
             pre == DecodedPrefix(ws, 1)
             pad == [i \in 1..(Len(ws) - Len(pre)) |-> Zero("payloadWrapper")]
             with(a) == Set(head.val, "PayloadContent",
                            GV("[]payloadWrapper", "", 0, FALSE, a, <<>>))
         IN  IF head.err # NoErr THEN {p}
             ELSE {p, head.val, with(pre), with(pre \o pad)}

\* plist.Unmarshal of the document doc into the profile p: the outcomes
\* [err, val], val the profile afterwards
plist_Unmarshal(doc, p) ==
    LET r == Unmarshal(doc, p) IN
    IF r.err = NoErr THEN {r}
    ELSE {[err |-> r.err, val |-> q] : q \in Residues(doc, p)}

\* plist.Marshal of the profile p: [err, val], val the tree written
plist_Marshal(p) == Encode(p)

---------------------------------------------------------------------------
(* Inputs                                                                  *)

KnownTypes ==
    {"com.apple.security.pkcs1", "com.apple.mdm", "com.apple.security.scep",
     "com.apple.security.acme"}

\* discriminators outside the registry
UnknownTypes == {"com.example.unknown", "com.apple.security.pkcs12"}

\* sequences over S of length at most n
SeqUpTo(S, n) == UNION {[1..k -> S] : k \in 0..n}

\* the PayloadType entry of a sub-document: a known type, an unknown one, a
\* non-string, or no entry at all
TypeEntries ==
    {<< <<"PayloadType", WStr(t)>> >> : t \in KnownTypes \cup UnknownTypes}
    \cup {<< <<"PayloadType", WInt(42)>> >>, <<>>}

\* the common fields besides PayloadType: well formed, or PayloadVersion a string
CommonEntries ==
    {<< <<"PayloadIdentifier", WStr("com.example.id")>>,
        <<"PayloadUUID", WStr("8BF53919")>>, <<"PayloadVersion", v>> >>
       : v \in {WInt(1), WStr("1")}}

SubjectAltNameDict(w) == WDict(<< <<"dNSName", w>> >>)

\* variant-specific bodies
BodyEntries ==
    { <<>>,
      << <<"PayloadCertificateFileName", WStr("ca.cer")>>,
         <<"PayloadContent", WData("DER")>> >>,
      << <<"PayloadContent",
           WDict(<< <<"URL", WStr("https://scep")>>, <<"Keysize", WInt(2048)>>,
                    <<"SubjectAltName", SubjectAltNameDict(WStr("a"))>> >>)>> >>,
      << <<"Topic", WStr("com.apple.mgmt")>>, <<"ServerURL", WStr("https://mdm")>>,
         <<"AccessRights", WInt(8191)>>, <<"SignMessage", WBool(TRUE)>>,
         <<"ServerCapabilities", WArr(<<WStr("a")>>)>> >>,
      << <<"Topic", WInt(42)>> >>,
      << <<"DirectoryURL", WStr("https://acme")>>, <<"KeySize", WInt(384)>>,
         <<"Attest", WBool(TRUE)>>,
         <<"SubjectAltName",
           WDict(<< <<"dNSName", WStr("a")>>,
                    <<"rfc822Name", WArr(<<WStr("a"), WStr("b")>>)>> >>)>> >>,
      << <<"SubjectAltName", SubjectAltNameDict(WInt(42))>> >>,
      << <<"SubjectAltName", SubjectAltNameDict(WArr(<<>>))>> >> }

\* the payload sub-documents UnmarshalPlist is driven with
SubDocs ==
    {WDict(c \o t \o b) : c \in CommonEntries, t \in TypeEntries, b \in BodyEntries}
    \cup {WStr("not a dict")}

\* the primitives a multiString field is decoded from
WireElems == {WStr(s) : s \in Strs} \cup {WInt(42)}
MultiWires ==
    {WStr(s) : s \in Strs} \cup {WInt(42), WBool(TRUE), WDict(<<>>), WInvalid}
    \cup {WArr(a) : a \in SeqUpTo(WireElems, MaxLen)}

\* a well-formed payload sub-document of type t with the body b
SubDoc(t, b) ==
    WDict(<< <<"PayloadIdentifier", WStr("com.example.id")>>,
             <<"PayloadUUID", WStr("8BF53919")>>, <<"PayloadType", WStr(t)>>,
             <<"PayloadVersion", WInt(1)>> >> \o b)

\* the payload sub-documents of the documents decoded: one per known type,
\* an unknown type with a body, a one-element array and an empty array in a
\* scalar-or-list field, and a body that does not fit its type
ProfileSubDocs ==
    { SubDoc("com.apple.security.pkcs1",
             << <<"PayloadCertificateFileName", WStr("ca.cer")>>,
                <<"PayloadContent", WData("DER")>> >>),
      SubDoc("com.apple.mdm",
             << <<"Topic", WStr("com.apple.mgmt")>>, <<"ServerURL", WStr("https://mdm")>>,
                <<"AccessRights", WInt(8191)>>, <<"SignMessage", WBool(TRUE)>>,
                <<"IdentityCertificateUUID", WStr("8BF53919")>> >>),
      SubDoc("com.apple.security.scep",
             << <<"PayloadContent",
                  WDict(<< <<"URL", WStr("https://scep")>>, <<"Keysize", WInt(2048)>>,
                           <<"SubjectAltName", SubjectAltNameDict(WStr("a"))>> >>)>> >>),
      SubDoc("com.apple.security.acme",
             << <<"DirectoryURL", WStr("https://acme")>>,
                <<"SubjectAltName",
                  WDict(<< <<"dNSName", WStr("a")>>,
                           <<"rfc822Name", WArr(<<WStr("a"), WStr("b")>>)>> >>)>> >>),
      SubDoc("com.apple.security.acme",
             << <<"SubjectAltName", SubjectAltNameDict(WArr(<<WStr("a")>>))>> >>),
      SubDoc("com.apple.security.acme",
             << <<"SubjectAltName", SubjectAltNameDict(WArr(<<>>))>> >>),
      SubDoc("com.example.unknown", << <<"Topic", WStr("com.apple.mgmt")>> >>),
      SubDoc("com.apple.mdm", << <<"Topic", WInt(42)>> >>) }

\* the documents decoded: the profile's own keys and up to MaxPayloads
\* payload sub-documents, or a PayloadContent that is no array
ProfileDoc(pc) ==
    WDict(<< <<"PayloadIdentifier", WStr("com.example.profile")>>,
             <<"PayloadUUID", WStr("2689BE77")>>,
             <<"PayloadType", WStr("Configuration")>>,
             <<"PayloadVersion", WInt(1)>>, <<"PayloadContent", pc>>,
             <<"PayloadScope", WStr("User")>> >>)
ProfileDocs ==
    {ProfileDoc(WArr(a)) : a \in SeqUpTo(ProfileSubDocs, MaxPayloads)}
    \cup {ProfileDoc(WStr("not an array"))}

\* the payloads AddPayload is given: what each constructor returns, and two
\* with fields set afterwards
AddArgs ==
    { NewCertificatePKCS1Payload("com.example.id", "8bf53919"),
      NewSCEPPayload("com.example.id", "8bf53919"),
      NewACMECertificatePayload("com.example.id", "8bf53919"),
      NewMDMPayload("com.example.id", "8bf53919"),
      NewPayload("com.example.unknown", "com.example.id", "2689be77"),
      NewPayload("com.apple.mdm", "com.example.id", "8bf53919"),
      Set(NewCertificatePKCS1Payload("com.example.id", "2689be77"),
          "PayloadContent", GoData("DER")),
      Set(NewACMECertificatePayload("com.example.id", "2689be77"), "SubjectAltName",
          GV("*SubjectAltName", "", 0, FALSE,
             <<Set(Zero("SubjectAltName"), "dNSName",
                   GV("multiString", "", 0, FALSE, GoStrings(<<"a", "b">>).a, <<>>))>>,
             <<>>)) }

\* nothing asked yet
NoQueries == << <<>>, <<>>, <<>>, <<>>, <<>> >>

---------------------------------------------------------------------------
(* State machine                                                           *)

Init ==
    /\ payload = GoNil
    /\ pwOp = "init"
    /\ pwIn = WNone
    /\ pwErr = NoErr
    /\ pwType = ""
    /\ pwPass = 0
    /\ pwOut = GoNil
    /\ pwPrev = GoNil
    /\ m = <<>>
    /\ msOp = "init"
    /\ msIn = WNone
    /\ msErr = NoErr
    /\ msOut = GoNil
    /\ msWire = WNone
    /\ msPrev = <<>>
    /\ profile = Zero("Profile")
    /\ prFrom = "zero"
    /\ prOp = "init"
    /\ prIn = WNone
    /\ prErr = NoErr
    /\ prOut = WNone
    /\ prBack = Zero("Profile")
    /\ prArg = GoNil
    /\ prPrev = Zero("Profile")
    /\ prQ = NoQueries

\* the codec decodes the sub-document doc into the wrapper
PayloadWrapperUnmarshal(doc) ==
    \E r \in {payloadWrapper_UnmarshalPlist(doc, payload)} :
    /\ payload' = r.Payload
    /\ pwOp' = "unmarshal"
    /\ pwIn' = doc
    /\ pwErr' = r.err
    /\ pwType' = r.plType
    /\ pwPass' = r.pass
    /\ pwOut' = GoNil
    /\ pwPrev' = payload
    /\ UNCHANGED <<msVars, prVars>>

\* the codec asks the wrapper for the value to encode
PayloadWrapperMarshal ==
    \E r \in {payloadWrapper_MarshalPlist(payload)} :
    /\ pwOp' = "marshal"
    /\ pwIn' = WNone
    /\ pwErr' = r.err
    /\ pwType' = ""
    /\ pwPass' = 0
    /\ pwOut' = r.val
    /\ pwPrev' = payload
    /\ UNCHANGED <<payload, msVars, prVars>>

\* a caller builds the field: multiString{...}
MultiStringSet(q) ==
    /\ m' = q
    /\ msOp' = "set"
    /\ msIn' = WNone
    /\ msErr' = NoErr
    /\ msOut' = GoNil
    /\ msWire' = WNone
    /\ msPrev' = m
    /\ UNCHANGED <<pwVars, prVars>>

\* the codec decodes the primitive w into the field
MultiStringUnmarshal(w) ==
    \E r \in {multiString_UnmarshalPlist(w, m)} :
    /\ m' = r.m
    /\ msOp' = "unmarshal"
    /\ msIn' = w
    /\ msErr' = r.err
    /\ msOut' = GoNil
    /\ msWire' = WNone
    /\ msPrev' = m
    /\ UNCHANGED <<pwVars, prVars>>

\* the codec encodes the field: MarshalPlist, then the returned value is written
MultiStringMarshal ==
    \E r \in {multiString_MarshalPlist(m)} :
    /\ msOp' = "marshal"
    /\ msIn' = WNone
    /\ msErr' = r.err
    /\ msOut' = r.val
    /\ msWire' = IF r.err = NoErr THEN Marshal(r.val) ELSE WNone
    /\ msPrev' = m
    /\ UNCHANGED <<m, pwVars, prVars>>

\* what was just written is decoded into a fresh field, which replaces m
MultiStringRoundTrip ==
    /\ msOp = "marshal"
    /\ msErr = NoErr
    /\ \E r \in {multiString_UnmarshalPlist(msWire, <<>>)} :
       /\ m' = r.m
       /\ msErr' = r.err
    /\ msOp' = "roundtrip"
    /\ msIn' = msWire
    /\ msPrev' = m
    /\ UNCHANGED <<msOut, msWire, pwVars, prVars>>

\* NewProfile(i): a new document replaces the one at hand
ProfileNew(i, u) ==
    /\ profile' = NewProfile(i, u)
    /\ prFrom' = "new"
    /\ prOp' = "new"
    /\ prIn' = WNone
    /\ prErr' = NoErr
    /\ prOut' = WNone
    /\ prBack' = Zero("Profile")
    /\ prArg' = GoNil
    /\ prPrev' = Zero("Profile")
    /\ prQ' = NoQueries
    /\ UNCHANGED <<pwVars, msVars>>

\* plist.Unmarshal(doc, p) with p := &Profile{}, as every caller has it
ProfileUnmarshal(doc) ==
    /\ prFrom = "zero"
    /\ \E r \in plist_Unmarshal(doc, profile) :
       /\ profile' = r.val
       /\ prErr' = r.err
       /\ prFrom' = IF r.err = NoErr THEN "decoded" ELSE "failed"
    /\ prOp' = "unmarshal"
    /\ prIn' = doc
    /\ prOut' = WNone
    /\ prBack' = Zero("Profile")
    /\ prArg' = GoNil
    /\ prPrev' = Zero("Profile")
    /\ prQ' = NoQueries
    /\ UNCHANGED <<pwVars, msVars>>

\* p.AddPayload(pld)
ProfileAddPayload(pld) ==
    /\ Len(Entries(profile)) < MaxPayloads
    /\ profile' = AddPayload(profile, pld)
    /\ prFrom' = IF prFrom \in {"new", "failed"} THEN prFrom ELSE "edited"
    /\ prOp' = "add"
    /\ prIn' = WNone
    /\ prErr' = NoErr
    /\ prOut' = WNone
    /\ prBack' = Zero("Profile")
    /\ prArg' = pld
    /\ prPrev' = profile
    /\ prQ' = NoQueries
    /\ UNCHANGED <<pwVars, msVars>>

\* plist.Marshal(p); a document whose decode failed is not encoded
ProfileMarshal ==
    /\ prFrom # "failed"
    /\ \E r \in {plist_Marshal(profile)} :
       /\ prErr' = r.err
       /\ prOut' = r.val
    /\ prOp' = "marshal"
    /\ prBack' = Zero("Profile")
    /\ prArg' = GoNil
    /\ prPrev' = Zero("Profile")
    /\ prQ' = NoQueries
    /\ UNCHANGED <<profile, prFrom, prIn, pwVars, msVars>>

\* what was just written is decoded into a second, new Profile
ProfileRoundTrip ==
    /\ prOp = "marshal"
    /\ prErr = NoErr
    /\ \E r \in plist_Unmarshal(prOut, Zero("Profile")) :
       /\ prBack' = r.val
       /\ prErr' = r.err
    /\ prOp' = "roundtrip"
    /\ UNCHANGED <<profile, prFrom, prIn, prOut, prArg, prPrev, prQ, pwVars, msVars>>

\* the five queries, asked one after the other
ProfileQuery ==
    /\ prQ' = <<UnknownPayloads(profile), CertificatePKCS1Payloads(profile),
                SCEPPayloads(profile), ACMECertificatePayloads(profile),
                MDMPayloads(profile)>>
    /\ prOp' = "query"
    /\ prErr' = NoErr
    /\ prOut' = WNone
    /\ prBack' = Zero("Profile")
    /\ prArg' = GoNil
    /\ prPrev' = Zero("Profile")
    /\ UNCHANGED <<profile, prFrom, prIn, pwVars, msVars>>

NextPW ==
    \/ \E doc \in SubDocs : PayloadWrapperUnmarshal(doc)
    \/ PayloadWrapperMarshal

NextMS ==
    \/ \E q \in SeqUpTo(Strs, MaxLen) : MultiStringSet(q)
    \/ \E w \in MultiWires : MultiStringUnmarshal(w)
    \/ MultiStringMarshal
    \/ MultiStringRoundTrip

NextPR ==
    \/ \E u \in UUIDs : ProfileNew("com.example.profile", u)
    \/ \E doc \in ProfileDocs : ProfileUnmarshal(doc)
    \/ \E pld \in AddArgs : ProfileAddPayload(pld)
    \/ ProfileMarshal
    \/ ProfileRoundTrip
    \/ ProfileQuery

Next == NextPW \/ NextMS \/ NextPR

\* a wrapper and a field share no state: a run that exercises the one leaves
\* the other as constructed
NextCore ==
    \/ msOp = "init" /\ NextPW
    \/ pwOp = "init" /\ NextMS

\* the wrapper alone, the field alone, either of the two, a document, and all
SpecPW == Init /\ [][NextPW]_vars
SpecMS == Init /\ [][NextMS]_vars
SpecCore == Init /\ [][NextCore]_vars
SpecPR == Init /\ [][NextPR]_vars
Spec == Init /\ [][Next]_vars

---------------------------------------------------------------------------
(* Reference notions the properties are stated with                        *)

\* the variant the registry is documented to hold for a discriminator
ExpectedVariant(t) ==
    CASE t = "com.apple.security.pkcs1" -> "CertificatePKCS1Payload"
      [] t = "com.apple.mdm" -> "MDMPayload"
      [] t = "com.apple.security.scep" -> "SCEPPayload"
      [] t = "com.apple.security.acme" -> "ACMECertificatePayload"
      [] OTHER -> "Payload"

Keys(fs) == [i \in 1..Len(fs) |-> fs[i][1]]

RECURSIVE Populated(_, _)
\* the Go value v holds exactly what the primitive w says: every entry of w
\* that v's type declares is in v, and every declared field w lacks is zero
Populated(v, w) ==
    CASE v.t = "multiString" ->
           \/ w.kind = "string" /\ Strings(v) = <<w.s>>
           \/ /\ w.kind = "array"
              /\ Len(v.a) = Len(w.a)
              /\ \A i \in 1..Len(w.a) : w.a[i].kind = "string" /\ v.a[i].s = w.a[i].s
      [] v.t = "[]byte" -> w.kind = "data" /\ v.s = w.s
      [] v.t = "string" -> w.kind = "string" /\ v.s = w.s
      [] v.t = "int" -> w.kind = "integer" /\ v.n = w.n
      [] v.t = "bool" -> w.kind = "boolean" /\ v.b = w.b
      [] v.t \in {"[]string", "[][]string", "[][][]string"} ->
           /\ w.kind = "array"
           /\ Len(v.a) = Len(w.a)
           /\ \A i \in 1..Len(w.a) : Populated(v.a[i], w.a[i])
      [] KindOf(v.t) = "ptr" -> Len(v.a) = 1 /\ Populated(v.a[1], w)
      [] KindOf(v.t) = "struct" ->
           /\ w.kind = "dict"
           /\ \A i \in 1..Len(v.f) :
                IF Has(w.d, v.f[i][1])
                THEN Populated(v.f[i][2], Get(w.d, v.f[i][1]))
                ELSE v.f[i][2] = Zero(v.f[i][2].t)
      [] OTHER -> FALSE

RECURSIVE Fits(_, _)
\* the primitive w has the shape the type of the (empty) target v declares
Fits(w, v) ==
    CASE v.t = "multiString" ->
           \/ w.kind = "string"
           \/ w.kind = "array" /\ \A i \in 1..Len(w.a) : w.a[i].kind = "string"
      [] v.t = "[]byte" -> w.kind = "data"
      [] v.t = "string" -> w.kind = "string"
      [] v.t = "int" -> w.kind = "integer"
      [] v.t = "bool" -> w.kind = "boolean"
      [] v.t \in {"[]string", "[][]string", "[][][]string"} ->
           w.kind = "array" /\ \A i \in 1..Len(w.a) : Fits(w.a[i], Zero(Elem(v.t)))
      [] KindOf(v.t) = "ptr" -> Fits(w, Zero(Elem(v.t)))
      [] KindOf(v.t) = "struct" ->
           /\ w.kind = "dict"
           /\ \A i \in 1..Len(v.f) :
                Has(w.d, v.f[i][1]) => Fits(Get(w.d, v.f[i][1]), v.f[i][2])
      [] OTHER -> FALSE

\* the discriminator entry of a sub-document: "absent", "string" or "other"
Discriminator(doc) ==
    IF doc.kind # "dict" \/ ~Has(doc.d, "PayloadType") THEN "absent"
    ELSE IF Get(doc.d, "PayloadType").kind = "string" THEN "string"
    ELSE "other"

DiscriminatorText(doc) == Get(doc.d, "PayloadType").s

\* every common field the sub-document carries has the declared primitive kind
CommonWellFormed(doc) ==
    /\ doc.kind = "dict"
    /\ \A i \in 1..Len(PayloadFields) :
         Has(doc.d, PayloadFields[i][1]) =>
           Get(doc.d, PayloadFields[i][1]).kind =
             (IF PayloadFields[i][2] = "int" THEN "integer" ELSE "string")

---------------------------------------------------------------------------
(* Properties                                                              *)

\* C1: a successful decode of a sub-document carrying one of the four known
\* discriminators stores a value of the variant registered for it, holding
\* that variant's declared fields, each populated from the body.
C1_KnownTypeDecodesToVariant ==
    (/\ pwOp = "unmarshal" /\ pwErr = NoErr
     /\ Discriminator(pwIn) = "string"
     /\ DiscriminatorText(pwIn) \in KnownTypes)
    => /\ payload.t = ExpectedVariant(DiscriminatorText(pwIn))
       /\ Keys(payload.f) = Keys(TypeFields(ExpectedVariant(DiscriminatorText(pwIn))))
       /\ Populated(payload, pwIn)

\* an ACME sub-document was decoded, with its body fields and a nested
\* multiString given as an array
C1_Witness ==
    /\ pwOp = "unmarshal" /\ pwErr = NoErr
    /\ Discriminator(pwIn) = "string"
    /\ DiscriminatorText(pwIn) = "com.apple.security.acme"
    /\ payload.t = "ACMECertificatePayload"
    /\ Field(payload, "DirectoryURL").s = "https://acme"
    /\ Field(payload, "KeySize").n = 384
    /\ Strings(Field(Field(payload, "SubjectAltName").a[1], "rfc822Name")) = <<"a", "b">>

\* C2: a sub-document whose discriminator is a string outside the registry
\* decodes without an error on account of its type: with well-formed common
\* fields the decode succeeds and stores the Unknown Variant (Payload) holding
\* the common fields only, whatever variant-specific entries the body has.
C2_UnknownTypeDecodesToPayload ==
    (/\ pwOp = "unmarshal"
     /\ Discriminator(pwIn) = "string"
     /\ DiscriminatorText(pwIn) \notin KnownTypes
     /\ CommonWellFormed(pwIn))
    => /\ pwErr = NoErr
       /\ payload.t = "Payload"
       /\ Keys(payload.f) = Keys(PayloadFields)
       /\ Populated(payload, pwIn)

\* an unknown-type sub-document whose body would not fit the MDM variant
\* was decoded
C2_Witness ==
    /\ pwOp = "unmarshal" /\ pwErr = NoErr
    /\ Discriminator(pwIn) = "string"
    /\ DiscriminatorText(pwIn) = "com.apple.security.pkcs12"
    /\ Has(pwIn.d, "Topic") /\ Get(pwIn.d, "Topic").kind = "integer"
    /\ payload.t = "Payload"
    /\ Field(payload, "PayloadIdentifier").s = "com.example.id"

\* C3: after a successful decode the PayloadType inside the stored value is
\* the discriminator the first pass read, and the stored value's variant is
\* the one the registry maps it to.
C3_DiscriminatorMatchesVariant ==
    (pwOp = "unmarshal" /\ pwErr = NoErr)
    => /\ pwPass = 2
       /\ Field(payload, "PayloadType").s = pwType
       /\ payload.t = ExpectedVariant(pwType)

\* a known discriminator was read and the stored value carries it
C3_Witness ==
    /\ pwOp = "unmarshal" /\ pwErr = NoErr
    /\ pwType = "com.apple.mdm"
    /\ Field(payload, "PayloadType").s = "com.apple.mdm"
    /\ Field(payload, "Topic").s = "com.apple.mgmt"

\* C4: when the discriminator is a known type and the body does not have that
\* variant's shape, so that the second pass fails, the
\* decode returns the second pass's error as it is and the wrapper holds what
\* it held before: no retry with, and no store of, the Unknown Variant.
C4_KnownTypeBodyErrorIsFatal ==
    (/\ pwOp = "unmarshal"
     /\ Discriminator(pwIn) = "string"
     /\ DiscriminatorText(pwIn) \in KnownTypes
     /\ ~Fits(pwIn, Zero(ExpectedVariant(DiscriminatorText(pwIn)))))
    => /\ pwErr # NoErr
       /\ pwErr = Unmarshal(pwIn, Zero(ExpectedVariant(DiscriminatorText(pwIn)))).err
       /\ pwPass = 2
       /\ payload = pwPrev

\* an MDM sub-document with a non-string Topic was rejected while the wrapper
\* held an earlier payload
C4_Witness ==
    /\ pwOp = "unmarshal"
    /\ pwType = "com.apple.mdm"
    /\ Has(pwIn.d, "Topic") /\ Get(pwIn.d, "Topic").kind = "integer"
    /\ CommonWellFormed(pwIn)
    /\ pwErr = UnmarshalTypeError("42", "string")
    /\ payload = pwPrev
    /\ payload.t = "SCEPPayload"

\* C5 as stated: a sub-document whose discriminator is absent, or present
\* but not a string, is rejected with an error and nothing is stored.
C5_AbsentOrNonStringIsFatal ==
    (pwOp = "unmarshal" /\ pwIn.kind = "dict" /\ Discriminator(pwIn) # "string")
    => /\ pwErr # NoErr
       /\ payload = pwPrev

\* C5 amended: a discriminator that is present but not a string is rejected
\* by the first pass with the codec's type-mismatch error as it is, no
\* variant is selected and nothing is stored; an absent discriminator is not
\* an error: the first pass reads the empty string, the Unknown Variant is
\* selected, and the decode succeeds when the common fields are well formed.
C5_NonStringIsFatalAbsentIsUnknown ==
    /\ (pwOp = "unmarshal" /\ Discriminator(pwIn) = "other")
       => /\ pwErr = UnmarshalTypeError(ValueText(Get(pwIn.d, "PayloadType")), "string")
          /\ pwPass = 1
          /\ pwType = ""
          /\ payload = pwPrev
    /\ (pwOp = "unmarshal" /\ pwIn.kind = "dict" /\ Discriminator(pwIn) = "absent")
       => /\ pwPass = 2
          /\ pwType = ""
          /\ CommonWellFormed(pwIn) =>
               /\ pwErr = NoErr
               /\ payload.t = "Payload"
               /\ Field(payload, "PayloadType").s = ""
               /\ Populated(payload, pwIn)

\* an integer discriminator was rejected while the wrapper held a payload
C5_Witness ==
    /\ pwOp = "unmarshal"
    /\ Discriminator(pwIn) = "other"
    /\ pwErr = UnmarshalTypeError("42", "string")
    /\ pwPass = 1
    /\ pwPrev.t = "MDMPayload"
    /\ payload = pwPrev

\* the primitive is an array whose elements are all strings
IsStringArray(w) ==
    w.kind = "array" /\ \A i \in 1..Len(w.a) : w.a[i].kind = "string"

\* C6: decoding a scalar string s gives the one-element sequence <<s>>, and
\* decoding an array of strings gives its elements in the array's order, both
\* without error.
C6_DecodeScalarOrSequence ==
    /\ (msOp = "unmarshal" /\ msIn.kind = "string")
       => msErr = NoErr /\ m = <<msIn.s>>
    /\ (msOp = "unmarshal" /\ IsStringArray(msIn))
       => /\ msErr = NoErr
          /\ Len(m) = Len(msIn.a)
          /\ \A i \in 1..Len(m) : m[i] = msIn.a[i].s

\* a two-element array with distinct elements was decoded over another value
C6_Witness ==
    /\ msOp = "unmarshal"
    /\ msIn = WArr(<<WStr("b"), WStr("a")>>)
    /\ m = <<"b", "a">>
    /\ msPrev = <<"a">>

\* C7: a field of length 1 encodes without error to the bare string it holds,
\* a field of length 2 or more to an array of strings equal to it element for
\* element.
C7_EncodeMinimalForm ==
    /\ (msOp = "marshal" /\ Len(m) = 1)
       => msErr = NoErr /\ msOut = GoString(m[1]) /\ msWire = WStr(m[1])
    /\ (msOp = "marshal" /\ Len(m) >= 2)
       => /\ msErr = NoErr
          /\ msOut.t = "[]string"
          /\ msWire.kind = "array"
          /\ Len(msWire.a) = Len(m)
          /\ \A i \in 1..Len(m) : msWire.a[i] = WStr(m[i])

\* a two-element field with distinct elements was encoded
C7_Witness ==
    /\ msOp = "marshal"
    /\ m = <<"b", "a">>
    /\ msWire = WArr(<<WStr("b"), WStr("a")>>)

\* C8: decoding what a field of length 1 or more was encoded to gives a
\* sequence equal to the field.
C8_RoundTrip ==
    msOp = "roundtrip"
    => /\ Len(msPrev) >= 1
       /\ msErr = NoErr
       /\ m = msPrev

\* a two-element field went round through the array form
C8_Witness ==
    /\ msOp = "roundtrip"
    /\ msPrev = <<"a", "b">>
    /\ msWire.kind = "array"
    /\ m = <<"a", "b">>

\* C9: encoding a field with no elements returns an error and no value.
C9_EncodeEmptyFails ==
    (msOp = "marshal" /\ Len(m) = 0)
    => /\ msErr.kind = "errorString"
       /\ msErr.Value = "cannot marshal empty"
       /\ msOut = GoNil
       /\ msWire = WNone

\* an empty field was encoded
C9_Witness ==
    /\ msOp = "marshal"
    /\ m = <<>>
    /\ msErr # NoErr

\* C10: decoding from a primitive that is neither a string nor an array of
\* strings fails, and when the codec reports a type mismatch the error
\* returned is a type-mismatch error naming multiString, not a probe type.
C10_TypeMismatchNamesMultiString ==
    (msOp = "unmarshal" /\ msIn.kind # "string" /\ ~IsStringArray(msIn))
    => /\ msErr # NoErr
       /\ Unmarshal(msIn, Zero("[]string")).err.kind = "UnmarshalTypeError"
          => /\ msErr.kind = "UnmarshalTypeError"
             /\ msErr.Type = "cfgprofiles.multiString"
             /\ msErr.Value = Unmarshal(msIn, Zero("[]string")).err.Value

\* the integer 42 was refused
C10_Witness ==
    /\ msOp = "unmarshal"
    /\ msIn = WInt(42)
    /\ msErr = UnmarshalTypeError("42", "cfgprofiles.multiString")

---------------------------------------------------------------------------
\* C11 as stated: no successful decode leaves the field with zero elements.
C11_DecodeNeverLeavesEmpty ==
    (msOp \in {"unmarshal", "roundtrip"} /\ msErr = NoErr) => Len(m) >= 1

\* C11: a successful decode from a string or from an array with at least one
\* element leaves the field with one element or more, in the primitive's
\* order; an array without elements decodes without error too and leaves the
\* field with zero elements, also when the field was populated before.
C11_DecodeEmptyOnlyFromEmptyArray ==
    /\ (msOp = "unmarshal" /\ msErr = NoErr /\ msIn # WArr(<<>>))
       => /\ Len(m) >= 1
          /\ msIn.kind = "string" \/ IsStringArray(msIn)
          /\ msIn.kind = "array" => Len(m) = Len(msIn.a)
    /\ (msOp = "unmarshal" /\ msIn = WArr(<<>>))
       => msErr = NoErr /\ m = <<>>

\* an array without elements was decoded over a populated field
C11_Witness ==
    /\ msOp = "unmarshal"
    /\ msIn = WArr(<<>>)
    /\ msErr = NoErr
    /\ msPrev = <<"a", "b">>
    /\ m = <<>>

\* C14 as stated: every error the core returns is a typed failure value.
C14_EveryErrorIsTyped ==
    /\ pwErr # NoErr => pwErr.kind = "UnmarshalTypeError"
    /\ msErr # NoErr => msErr.kind = "UnmarshalTypeError"

\* C14: every error ends the call with nothing stored or written.  A decode
\* error of the wrapper is the codec's own error, a typed UnmarshalTypeError
\* for every kind mismatch; a decode error of the field is a typed
\* UnmarshalTypeError exactly when the codec's last probe failed with one,
\* and otherwise a formatted error wrapping it; the encode error of an empty
\* field is a formatted error with no type of its own.
C14_TypedDecodeFormattedEncode ==
    /\ (pwOp = "unmarshal" /\ pwErr # NoErr)
       => /\ pwErr.kind = "UnmarshalTypeError"
          /\ pwErr \in {Unmarshal(pwIn, Zero("plType")).err,
                        Unmarshal(pwIn, newPayloadForType(pwType)).err}
          /\ payload = pwPrev
    /\ (msOp = "unmarshal" /\ msErr # NoErr)
       => /\ msErr.kind = IF Unmarshal(msIn, Zero("[]string")).err.kind
                                = "UnmarshalTypeError"
                          THEN "UnmarshalTypeError" ELSE "wrapError"
          /\ m = msPrev
    /\ (msOp = "marshal" /\ msErr # NoErr)
       => /\ msErr.kind = "errorString"
          /\ msOut = GoNil
          /\ msWire = WNone
    /\ pwOp = "marshal" => pwErr = NoErr

\* an empty field was encoded and the call returned the formatted error
C14_Witness ==
    /\ msOp = "marshal"
    /\ m = <<>>
    /\ msErr = Err("errorString", "cannot marshal empty", "cfgprofiles.multiString")
    /\ msWire = WNone

\* C15: when the wrapper's decode returns an error, from either pass, the
\* wrapper holds the payload value it held before the call; when the field's
\* decode returns an error, the field holds the sequence it held before.
C15_FailedDecodeChangesNothing ==
    /\ (pwOp = "unmarshal" /\ pwErr # NoErr)
       => /\ pwPass \in {1, 2}
          /\ payload = pwPrev
    /\ (msOp = "unmarshal" /\ msErr # NoErr) => m = msPrev
    /\ (pwOp = "unmarshal" /\ payload # pwPrev) => pwErr = NoErr
    /\ (msOp = "unmarshal" /\ m # msPrev) => msErr = NoErr

\* the variant body was refused in the second pass while the wrapper held a
\* payload of another variant
C15_Witness ==
    /\ pwOp = "unmarshal"
    /\ pwErr # NoErr
    /\ pwPass = 2
    /\ pwType = "com.apple.mdm"
    /\ pwPrev.t = "ACMECertificatePayload"
    /\ payload = pwPrev

\* two primitive trees are equivalent: dicts hold the same keys with equivalent
\* values in whatever order, arrays equivalent elements in the same order
RECURSIVE SameTree(_, _)
SameTree(x, y) ==
    /\ x.kind = y.kind
    /\ CASE x.kind = "dict" ->
              /\ {x.d[i][1] : i \in 1..Len(x.d)} = {y.d[i][1] : i \in 1..Len(y.d)}
              /\ \A i \in 1..Len(x.d) : SameTree(x.d[i][2], Get(y.d, x.d[i][1]))
         [] x.kind = "array" ->
              /\ Len(x.a) = Len(y.a)
              /\ \A i \in 1..Len(x.a) : SameTree(x.a[i], y.a[i])
         [] OTHER -> x = y

\* the primitive is the empty value of its kind
EmptyWire(w) ==
    \/ w.kind = "string" /\ w.s = ""
    \/ w.kind = "integer" /\ w.n = 0
    \/ w.kind = "boolean" /\ ~w.b
    \/ w.kind = "data" /\ w.s = ""
    \/ w.kind = "array" /\ w.a = <<>>

RECURSIVE Canonical(_, _)
\* the primitive w is written the way a value of type T is encoded: a dict
\* holds declared keys only, every key not tagged omitempty, and no empty
\* value under a key tagged omitempty (a pointer is never empty); a
\* scalar-or-list field is a string or an array of two strings or more
Canonical(w, T) ==
    CASE T = "multiString" ->
           \/ w.kind = "string"
           \/ IsStringArray(w) /\ Len(w.a) >= 2
      [] KindOf(T) = "ptr" -> Canonical(w, Elem(T))
      [] KindOf(T) = "struct" ->
           /\ w.kind = "dict"
           /\ \A i \in 1..Len(TypeFields(T)) :
                LET k == TypeFields(T)[i][1]
                    F == TypeFields(T)[i][2]
                IN  IF Has(w.d, k)
                    THEN /\ Canonical(Get(w.d, k), F)
                         /\ (k \in OmitEmpty(T) /\ KindOf(F) # "ptr")
                            => ~EmptyWire(Get(w.d, k))
                    ELSE k \in OmitEmpty(T)
           /\ \A i \in 1..Len(w.d) :
                \E j \in 1..Len(TypeFields(T)) : TypeFields(T)[j][1] = w.d[i][1]
      [] KindOf(T) = "slice" /\ T \notin {"multiString", "[]byte"} ->
           w.kind = "array" /\ \A i \in 1..Len(w.a) : Canonical(w.a[i], Elem(T))
      [] OTHER -> Fits(w, Zero(T))

\* the payload sub-documents of a document tree
SubDocsOf(doc) == Get(doc.d, "PayloadContent").a

\* C12 as stated: re-encoding a decoded document succeeds and gives a tree
\* equivalent to the original.
C12_ReencodeGivesSameTree ==
    (prOp = "marshal" /\ prFrom = "decoded")
    => prErr = NoErr /\ SameTree(prIn, prOut)

\* C12: re-encoding a decoded document succeeds and gives a tree with as many
\* payload entries as the original, in the same order and with the same
\* PayloadType; every field the entry's resolved variant declares has in the
\* new tree the value it was decoded with from the original, and the profile's
\* own keys are as in the original.  An entry written the way its resolved
\* variant is encoded comes out as an equivalent tree.
C12_ReencodeKeepsDeclaredFields ==
    (prOp = "marshal" /\ prFrom = "decoded")
    => /\ prErr = NoErr
       /\ prOut.kind = "dict"
       /\ Has(prOut.d, "PayloadContent")
       /\ Get(prOut.d, "PayloadContent").kind = "array"
       /\ Len(SubDocsOf(prOut)) = Len(SubDocsOf(prIn))
       /\ \A k \in {"PayloadIdentifier", "PayloadUUID", "PayloadType",
                     "PayloadVersion", "PayloadScope"} :
            Has(prOut.d, k) /\ Get(prOut.d, k) = Get(prIn.d, k)
       /\ \A i \in 1..Len(SubDocsOf(prIn)) :
            LET in == SubDocsOf(prIn)[i]
                out == SubDocsOf(prOut)[i]
                held == Held(Entries(profile)[i])
            IN  /\ out.kind = "dict"
                /\ Get(out.d, "PayloadType") = Get(in.d, "PayloadType")
                /\ Populated(held, in)
                /\ Populated(held, out)
                /\ Canonical(out, held.t)
                /\ Canonical(in, held.t) => SameTree(in, out)

\* a document of an MDM payload and a payload of an unknown type with a Topic
\* key was decoded and encoded again: the Topic of the first is in the new
\* tree, that of the second is not
C12_Witness ==
    /\ prOp = "marshal"
    /\ prFrom = "decoded"
    /\ Len(SubDocsOf(prIn)) = 2
    /\ Get(SubDocsOf(prIn)[1].d, "PayloadType") = WStr("com.apple.mdm")
    /\ Get(SubDocsOf(prOut)[1].d, "Topic") = WStr("com.apple.mgmt")
    /\ Get(SubDocsOf(prIn)[2].d, "PayloadType") = WStr("com.example.unknown")
    /\ Has(SubDocsOf(prIn)[2].d, "Topic")
    /\ ~Has(SubDocsOf(prOut)[2].d, "Topic")

\* C13 as stated: a document built by NewProfile and AddPayload calls, encoded
\* and decoded, has the entries it had: as many, in the same order, each of
\* the same variant with the same field values.
C13_BuiltDocumentComesBackEqual ==
    (prOp = "roundtrip" /\ prFrom = "new")
    => prErr = NoErr /\ Entries(prBack) = Entries(profile)

\* C13: a document built by NewProfile and AddPayload calls, encoded and
\* decoded, has as many entries in the same order, each with the common
\* fields (identifier, UUID, type, version) of the appended payload and of
\* the variant registered for the payload's PayloadType.  An entry appended
\* as one of the four known variants comes back equal in every field; an
\* entry appended as a Payload (from NewPayload) comes back as a Payload only
\* when its type is outside the registry, and otherwise as the registered
\* variant with the appended common fields and nothing else set.
C13_BuiltDocumentComesBackByType ==
    (prOp = "roundtrip" /\ prFrom = "new")
    => /\ prErr = NoErr
       /\ Set(prBack, "PayloadContent", Field(profile, "PayloadContent")) = profile
       /\ Len(Entries(prBack)) = Len(Entries(profile))
       /\ \A i \in 1..Len(Entries(profile)) :
            LET was == Held(Entries(profile)[i])
                back == Held(Entries(prBack)[i])
            IN  /\ back.t = ExpectedVariant(Field(was, "PayloadType").s)
                /\ CommonPayload(back) = CommonPayload(was)
                /\ was.t # "Payload" => back = was
                /\ was.t = "Payload" => back = Embed(back.t, was)

\* a document of a certificate payload with its content set and a Payload of
\* a registered type, in this order, came back with the second an MDMPayload
C13_Witness ==
    /\ prOp = "roundtrip"
    /\ prFrom = "new"
    /\ Len(Entries(profile)) = 2
    /\ Held(Entries(profile)[1]).t = "CertificatePKCS1Payload"
    /\ Field(Held(Entries(prBack)[1]), "PayloadContent") = GoData("DER")
    /\ Held(Entries(profile)[2]) =
         NewPayload("com.apple.mdm", "com.example.id", "8bf53919")
    /\ Held(Entries(prBack)[2]).t = "MDMPayload"

\* the positions a query result names, and the variant each query is for
Returned(q) == {q[j] : j \in 1..Len(q)}
QueryVariants ==
    <<"Payload", "CertificatePKCS1Payload", "SCEPPayload",
      "ACMECertificatePayload", "MDMPayload">>

\* C16: each of the five queries returns the entries whose held value is of
\* its variant, all of them, once each and in document order, so that no
\* entry is returned by two queries; AddPayload leaves a document with one
\* entry more, the payload given, at the end and the earlier entries and
\* every other field as they were; every entry of a successfully decoded
\* document is returned by one of the five queries.
C16_QueriesPartitionByVariant ==
    /\ prOp = "query"
       => /\ \A k \in 1..5 :
               /\ Returned(prQ[k]) =
                    {i \in 1..Len(Entries(profile)) :
                       Held(Entries(profile)[i]).t = QueryVariants[k]}
               /\ \A j \in 1..Len(prQ[k]) - 1 : prQ[k][j] < prQ[k][j + 1]
          /\ \A k, l \in 1..5 :
               k # l => Returned(prQ[k]) \cap Returned(prQ[l]) = {}
          /\ prFrom = "decoded"
             => \A i \in 1..Len(Entries(profile)) :
                  \E k \in 1..5 : i \in Returned(prQ[k])
    /\ prOp = "add"
       => /\ Len(Entries(profile)) = Len(Entries(prPrev)) + 1
          /\ SubSeq(Entries(profile), 1, Len(Entries(prPrev))) = Entries(prPrev)
          /\ Held(Entries(profile)[Len(Entries(profile))]) = prArg
          /\ Set(profile, "PayloadContent", Field(prPrev, "PayloadContent")) = prPrev

\* the queries were asked of a decoded document of a payload of an unknown
\* type followed by an MDM payload
C16_Witness ==
    /\ prOp = "query"
    /\ prFrom = "decoded"
    /\ prQ = << <<1>>, <<>>, <<>>, <<>>, <<2>> >>

=============================================================================
